---- MODULE Spec2Model ----
(***************************************************************************)
(* State-machine model of the VN Club Bot reward and ranking engine:       *)
(* the title catalog (vn_titles), the metadata cache (vndb_cache), the     *)
(* completion ledger (reading_logs), the leaderboards and the periodic     *)
(* role-reward reconciliation (check_rewards).                             *)
(*                                                                         *)
(* Strings that the code inspects or compares are sequences of characters: *)
(* a VNDB id "v1" is <<"v", "1">>, a month "2025-01" is the sequence of    *)
(* its characters' offsets from "0" ("-" is -3, as in ASCII).  An optional *)
(* value (Python None / SQL NULL) is None == <<>>, a present one Some(x).  *)
(***************************************************************************)
EXTENDS Integers, Sequences, FiniteSets, TLC

VARIABLES
    now,        \* the wall clock, in months since year 0 (year * 12 + month - 1)
    vn_titles,  \* table vn_titles: sequence of rows in rowid order
    vndb_cache, \* table vndb_cache: vndb_id -> None | Some(row)
    reading_logs, \* table reading_logs: sequence of rows in log_id order
    next_log_id,  \* AUTOINCREMENT counter of reading_logs.log_id
    roles,      \* member.roles: guild -> member -> set of role names
    tick,       \* the position of the check_rewards task
    reply,      \* what the last command answered
    call        \* calls in progress: the pure function under test, or the
                \* commands that wait for the database between two steps

vars == <<now, vn_titles, vndb_cache, reading_logs, next_log_id, roles, tick, reply, call>>

---------------------------------------------------------------------------
(* Bounds of the model *)

MaxLog == 2         \* rows of reading_logs in the ledger runs
MaxFinish == 2      \* rows of reading_logs in the reward calculator runs
MaxMonths == 2      \* months the clock advances past its start
MaxMinutes == 1300  \* length_minutes tried on get_points_not_monthly
MaxTotal == 103     \* totals tried on determine_correct_role (from -MaxTotal)

---------------------------------------------------------------------------
(* Optional values and truthiness *)

None == <<>>
Some(x) == <<x>>
Val(o) == o[1]

\* a Python int, or a str holding digits (what a TEXT column gives back)
PyInt(n) == [t |-> "int", v |-> n]
PyStr(n) == [t |-> "str", v |-> n]

\* Python truthiness of an Optional[int]: None and 0 are falsy
TruthyInt(o) == o /= None /\ Val(o) /= 0
\* Python truthiness of an optional typed value: None, 0 and "" are falsy
TruthyTyped(o) == o /= None /\ (Val(o).t = "int" => Val(o).v /= 0)

Max(a, b) == IF a >= b THEN a ELSE b

---------------------------------------------------------------------------
(* Strings *)

\* lexicographic <= on character sequences, as Python and SQLite compare text
RECURSIVE StrLeq(_, _)
StrLeq(a, b) ==
    IF a = <<>> THEN TRUE
    ELSE IF b = <<>> THEN FALSE
    ELSE IF a[1] /= b[1] THEN a[1] < b[1]
    ELSE StrLeq(Tail(a), Tail(b))

\* strftime("%Y-%m") of the clock
get_current_month(clock) ==
    LET y == clock \div 12
        m == (clock % 12) + 1
    IN  << (y \div 1000) % 10, (y \div 100) % 10, (y \div 10) % 10, y % 10, -3,
           m \div 10, m % 10 >>

\* faulty variant: the window excludes its first month
is_month_in_range_open(current_month, start_month, end_month) ==
    /\ StrLeq(start_month, current_month) /\ start_month /= current_month
    /\ StrLeq(current_month, end_month)

is_month_in_range(current_month, start_month, end_month) ==
    StrLeq(start_month, current_month) /\ StrLeq(current_month, end_month)

IsDigit(c) == c \in 0..9

validate_month_format(month) ==
    /\ month /= None
    /\ Len(month) = 7
    /\ \A i \in {1, 2, 3, 4, 6, 7} : IsDigit(month[i])
    /\ month[5] = -3
    /\ month[6] * 10 + month[7] \in 1..12

startswith_v(id) == Len(id) > 0 /\ id[1] = "v"

\* if not vndb_id.startswith("v"): vndb_id = f"v{vndb_id}"
add_v_prefix(id) == IF startswith_v(id) THEN id ELSE <<"v">> \o id

---------------------------------------------------------------------------
(* The people, the communities and the external bibliographic service *)

Users == {1, 2}
Guilds == <<"TMW", "DJT">>
GuildSet == {Guilds[i] : i \in 1..Len(Guilds)}

\* VN_MANAGER_USER_IDS / VN_MANAGER_ROLE_IDS of the deployment
ALLOWED_USER_IDS == {1}
ALLOWED_ROLE_IDS == {"Manager"}

\* ids as users type them, and the ids the tables are keyed by
RawIds == {<<"v", "1">>, <<"1">>, <<"v", "2">>}
Ids == {add_v_prefix(r) : r \in RawIds}

\* what api.vndb.org answers for an id: (id, length_minutes, length)
VNDB(vid) ==
    IF vid = <<"v", "1">>
    THEN [vndb_id |-> vid, length_minutes |-> Some(1250), length_rating |-> Some(PyInt(3))]
    ELSE [vndb_id |-> vid, length_minutes |-> None, length_rating |-> Some(PyInt(2))]

---------------------------------------------------------------------------
(* lib/vndb_api.py *)

\* SQLite column affinity: a value stored in a TEXT column comes back as text,
\* a digit string stored in an INTEGER column is stored as the integer
to_text(o) == IF o = None THEN None ELSE Some(PyStr(Val(o).v))
to_integer(x) == x.v

_fetch_from_vndb(vid, api_up) ==
    IF api_up THEN Some(VNDB(add_v_prefix(vid))) ELSE None

\* the row save_to_db inserts, as _get_from_db reads it back
cache_row(entry) ==
    [vndb_id |-> entry.vndb_id,
     length_minutes |-> entry.length_minutes,
     length_rating |-> to_text(entry.length_rating)]

\* faulty variant: when the fetch fails an entry without any length stands in
from_vndb_id_default(cache, raw_id, api_up) ==
    LET vid == add_v_prefix(raw_id)
        vn_info == cache[vid]
        fetched == _fetch_from_vndb(vid, api_up)
        default == [vndb_id |-> vid, length_minutes |-> None, length_rating |-> None]
    IN  IF vn_info /= None THEN [entry |-> vn_info, cache |-> cache, fetch_called |-> FALSE]
        ELSE IF fetched = None
        THEN [entry |-> Some(default), cache |-> cache, fetch_called |-> TRUE]
        ELSE [entry |-> fetched, fetch_called |-> TRUE,
              cache |-> [cache EXCEPT ![Val(fetched).vndb_id] = Some(cache_row(Val(fetched)))]]

\* faulty variant: the entry is fetched again whenever the API answers
from_vndb_id_refresh(cache, raw_id, api_up) ==
    LET vid == add_v_prefix(raw_id)
        vn_info == cache[vid]
        fetched == _fetch_from_vndb(vid, api_up)
    IN  IF fetched = None THEN [entry |-> vn_info, cache |-> cache, fetch_called |-> TRUE]
        ELSE [entry |-> fetched, fetch_called |-> TRUE,
              cache |-> [cache EXCEPT ![Val(fetched).vndb_id] = Some(cache_row(Val(fetched)))]]

\* from_vndb_id: the entry returned (None on failure), the cache afterwards, and
\* whether _fetch_from_vndb was called
from_vndb_id(cache, raw_id, api_up) ==
    LET vid == add_v_prefix(raw_id)
        vn_info == cache[vid]
        fetched == _fetch_from_vndb(vid, api_up)
    IN  IF vn_info /= None THEN [entry |-> vn_info, cache |-> cache, fetch_called |-> FALSE]
        ELSE IF fetched = None THEN [entry |-> None, cache |-> cache, fetch_called |-> TRUE]
        ELSE [entry |-> fetched, fetch_called |-> TRUE,
              cache |-> [cache EXCEPT ![Val(fetched).vndb_id] = Some(cache_row(Val(fetched)))]]

floor_points(length_minutes) ==
    LET points == length_minutes \div 600
    IN  IF points < 1 THEN 1 ELSE points

get_points_not_monthly(entry) ==
    IF TruthyInt(entry.length_minutes)
    THEN PyInt(floor_points(Val(entry.length_minutes)))
    ELSE IF TruthyTyped(entry.length_rating)
    THEN Val(entry.length_rating)
    ELSE PyInt(1)

---------------------------------------------------------------------------
(* lib/utils.py: validation and queries *)

MIN_RATING == 1
MAX_RATING == 5
MAX_COMMENT_LENGTH == 1000
DEFAULT_MONTHLY_POINTS == 10

\* faulty variant: everybody may use the management commands
user_has_permission_anyone(user_id, role_ids) == TRUE

user_has_permission(user_id, role_ids) ==
    user_id \in ALLOWED_USER_IDS \/ (role_ids \cap ALLOWED_ROLE_IDS) /= {}

\* faulty variant: only the upper end of the range is tested
rating_invalid_upper(rating) == rating > MAX_RATING

\* TRUE when validate_rating_input raises
rating_invalid(rating) == rating = 0 \/ rating < MIN_RATING \/ rating > MAX_RATING

\* TRUE when validate_comment_length raises
comment_invalid(comment_len) == comment_len > MAX_COMMENT_LENGTH

RECURSIVE SumPoints(_)
SumPoints(rows) ==
    IF rows = <<>> THEN 0 ELSE Head(rows).points + SumPoints(Tail(rows))

\* GET_USER_VN_LOG: SELECT * FROM reading_logs WHERE user_id = ? AND vndb_id = ?
GET_USER_VN_LOG(logs, user_id, vndb_id) ==
    LET Match(r) == r.user_id = user_id /\ r.vndb_id = vndb_id
    IN  SelectSeq(logs, Match)

\* GET_USER_TOTAL_POINTS: SELECT SUM(points) ... WHERE user_id = ? (NULL on no row)
GET_USER_TOTAL_POINTS(logs, user_id) ==
    LET Match(r) == r.user_id = user_id
        mine == SelectSeq(logs, Match)
    IN  IF mine = <<>> THEN None ELSE Some(SumPoints(mine))

\* GET_VN_TITLE: SELECT ... FROM vn_titles WHERE vndb_id = ? (GET_ONE: the first row)
GET_VN_TITLE(titles, vndb_id) ==
    LET Match(r) == r.vndb_id = vndb_id
        found == SelectSeq(titles, Match)
    IN  IF found = <<>> THEN None ELSE Some(Head(found))

\* faulty variant: the table has no key, every row is inserted
ADD_VN_TITLE_no_key(titles, row) == [ok |-> TRUE, titles |-> Append(titles, row)]

\* ADD_VN_TITLE: INSERT INTO vn_titles; vndb_id is the PRIMARY KEY, so the insert
\* of a second row with the same vndb_id raises IntegrityError
ADD_VN_TITLE(titles, row) ==
    IF GET_VN_TITLE(titles, row.vndb_id) /= None
    THEN [ok |-> FALSE, titles |-> titles]
    ELSE [ok |-> TRUE, titles |-> Append(titles, row)]

\* DELETE_VN_TITLE: DELETE FROM vn_titles WHERE vndb_id = ?
DELETE_VN_TITLE(titles, vndb_id) ==
    LET Other(r) == r.vndb_id /= vndb_id
    IN  SelectSeq(titles, Other)

---------------------------------------------------------------------------
(* Initial state: empty tables, nobody holds a role, the reward task idle *)

StartClock == 2024 * 12 + 11     \* December 2024

NoReply == [op |-> "none", status |-> "none", out |-> None]
Answer(op, status) == [op |-> op, status |-> status, out |-> None]

\* no member holds a role
NoRoles == [g \in GuildSet |-> [m \in Users |-> {}]]

\* check_rewards between two runs. ran, ok, ledger and held remember the last run:
\* whether there was one, whether it ended without an exception, the ledger its
\* query read and the roles the members held when it ended
Idle ==
    [pc |-> "idle", data |-> <<>>, g |-> 0, u |-> 0, calls |-> <<>>, repeat |-> FALSE,
     ran |-> FALSE, ok |-> FALSE, ledger |-> <<>>, held |-> NoRoles]

InitTables ==
    /\ now = StartClock
    /\ vn_titles = <<>>
    /\ vndb_cache = [id \in Ids |-> None]
    /\ reading_logs = <<>>
    /\ next_log_id = 1
    /\ roles = NoRoles
    /\ tick = Idle
    /\ reply = NoReply

Init == InitTables /\ call = None

\* the clock passes into the next month
AdvanceMonth ==
    /\ now < StartClock + MaxMonths
    /\ now' = now + 1
    /\ UNCHANGED <<vn_titles, vndb_cache, reading_logs, next_log_id, roles, tick, reply, call>>

---------------------------------------------------------------------------
(* cogs/vn_user_commands.py *)

\* faulty variant: the duplicate lookup never finds a row
log_already_exists_never(logs, user_id, vndb_id) == FALSE

log_already_exists(logs, user_id, vndb_id) ==
    GET_USER_VN_LOG(logs, user_id, vndb_id) /= <<>>

get_single_monthly_vn(titles, vndb_id) == GET_VN_TITLE(titles, vndb_id)

\* the row ADD_READING_LOG inserts
reading_log(log_id, user_id, vndb_id, user_rating, reward_reason, reward_month, points, comment, logged_in_guild) ==
    [log_id |-> log_id, user_id |-> user_id, vndb_id |-> vndb_id,
     user_rating |-> user_rating, reward_reason |-> reward_reason,
     reward_month |-> reward_month, points |-> points, comment |-> comment,
     logged_in_guild |-> logged_in_guild]

\* /finish_vn, run without another command interleaving
finish_vn(user, vndb_id, comment_len, rating, guild, api_up) ==
    LET current_month == get_current_month(now)
        result == get_single_monthly_vn(vn_titles, vndb_id)
        read_in_monthly ==
            /\ result /= None
            /\ is_month_in_range(current_month, Val(result).start_month,
                                 Val(result).end_month)
        got == from_vndb_id(vndb_cache, vndb_id, api_up)
        vn_info == got.entry
        reward_points ==
            IF read_in_monthly THEN PyInt(Val(result).is_monthly_points)
            ELSE get_points_not_monthly(Val(vn_info))
        reward_reason ==
            IF read_in_monthly THEN "As Monthly VN" ELSE "As Non-Monthly VN"
        row == reading_log(next_log_id, user, vndb_id, Some(rating), reward_reason,
                           current_month, to_integer(reward_points),
                           Some(comment_len), guild)
    IN  /\ UNCHANGED <<now, vn_titles, roles, tick, call>>
        /\ IF comment_invalid(comment_len) \/ rating_invalid(rating)
           THEN /\ reply' = Answer("finish_vn", IF comment_invalid(comment_len)
                                                THEN "invalid comment" ELSE "invalid rating")
                /\ UNCHANGED <<vndb_cache, reading_logs, next_log_id>>
           ELSE IF vn_info = None
           THEN /\ reply' = Answer("finish_vn", "vndb id not found")
                /\ UNCHANGED <<vndb_cache, reading_logs, next_log_id>>
           ELSE IF log_already_exists(reading_logs, user, vndb_id)
           THEN /\ reply' = Answer("finish_vn", "already logged")
                /\ vndb_cache' = got.cache
                /\ UNCHANGED <<reading_logs, next_log_id>>
           ELSE /\ vndb_cache' = got.cache
                /\ reading_logs' = Append(reading_logs, row)
                /\ next_log_id' = next_log_id + 1
                   \* current_total_points + reward_points raises on a str
                /\ reply' = Answer("finish_vn",
                                   IF reward_points.t = "int" THEN "ok" ELSE "error")

\* faulty variant: a member who already has a grant for this reason gets no second one
reward_points_once(caller, member, points, reason, guild) ==
    LET Same(r) == r.user_id = member /\ r.reward_reason = reason
    IN  /\ UNCHANGED <<now, vn_titles, vndb_cache, roles, tick, call>>
        /\ IF ~user_has_permission(caller, roles[guild][caller])
           THEN /\ reply' = Answer("reward_points", "not authorized")
                /\ UNCHANGED <<reading_logs, next_log_id>>
           ELSE IF SelectSeq(reading_logs, Same) /= <<>>
           THEN /\ reply' = Answer("reward_points", "already logged")
                /\ UNCHANGED <<reading_logs, next_log_id>>
           ELSE /\ reading_logs' =
                       Append(reading_logs,
                              reading_log(next_log_id, member, None, None, reason,
                                          get_current_month(now), points, None, guild))
                /\ next_log_id' = next_log_id + 1
                /\ reply' = Answer("reward_points", "ok")

\* /reward_points
reward_points(caller, member, points, reason, guild) ==
    /\ UNCHANGED <<now, vn_titles, vndb_cache, roles, tick, call>>
    /\ IF ~user_has_permission(caller, roles[guild][caller])
       THEN /\ reply' = Answer("reward_points", "not authorized")
            /\ UNCHANGED <<reading_logs, next_log_id>>
       ELSE /\ reading_logs' =
                   Append(reading_logs,
                          reading_log(next_log_id, member, None, None, reason,
                                      get_current_month(now), points, None, guild))
            /\ next_log_id' = next_log_id + 1
            /\ reply' = Answer("reward_points", "ok")

\* GET_LOG_BY_ID: the columns selected, and the row of this log_id (None if absent)
GET_LOG_BY_ID_columns ==
    <<"user_id", "vndb_id", "user_rating", "reward_reason", "reward_month",
      "points", "comment", "logged_in_guild">>

\* faulty variant: the first row of the table, whatever its log_id
GET_LOG_BY_ID_any(logs, log_id) ==
    IF logs = <<>> THEN None ELSE Some(Head(logs))

GET_LOG_BY_ID(logs, log_id) ==
    LET Match(r) == r.log_id = log_id
        found == SelectSeq(logs, Match)
    IN  IF found = <<>> THEN None ELSE Some(Head(found))

\* the names delete_log unpacks the row into
delete_log_targets ==
    <<"user_id", "vndb_id", "reward_reason", "reward_month", "points", "comment",
      "logged_in_guild">>

\* tuple unpacking raises ValueError unless the lengths agree
unpack_ok(columns, targets) == Len(columns) = Len(targets)

\* DELETE FROM reading_logs WHERE log_id = ?
DELETE_LOG_BY_ID(logs, log_id) ==
    LET Keep(r) == r.log_id /= log_id
    IN  SelectSeq(logs, Keep)

\* /delete_log
delete_log(caller, guild, log_id) ==
    /\ UNCHANGED <<now, vn_titles, vndb_cache, next_log_id, roles, tick, call>>
    /\ IF ~user_has_permission(caller, roles[guild][caller])
       THEN /\ reply' = Answer("delete_log", "not authorized")
            /\ UNCHANGED reading_logs
       ELSE IF GET_LOG_BY_ID(reading_logs, log_id) = None
       THEN /\ reply' = Answer("delete_log", "log not found")
            /\ UNCHANGED reading_logs
       ELSE IF ~unpack_ok(GET_LOG_BY_ID_columns, delete_log_targets)
       THEN /\ reply' = Answer("delete_log", "error")
            /\ UNCHANGED reading_logs
       ELSE /\ reading_logs' = DELETE_LOG_BY_ID(reading_logs, log_id)
            /\ reply' = Answer("delete_log", "deleted")

---------------------------------------------------------------------------
(* cogs/vn_title_management.py *)

\* resolve_vn_from_input on a raw VNDB id ("v11" or "11")
resolve_vn_from_input(raw_value) == add_v_prefix(raw_value)

check_if_already_exists(titles, vndb_id) == GET_VN_TITLE(titles, vndb_id) /= None

check_if_not_exists(titles, vndb_id) == GET_VN_TITLE(titles, vndb_id) = None

\* validate_month_input via get_vn_month: the month, or None after the error reply
get_vn_month(month) ==
    IF month = None THEN get_current_month(now)
    ELSE IF ~validate_month_format(month) THEN None
    ELSE month

\* the row ADD_VN_TITLE inserts
vn_title(vndb_id, start_month, end_month, is_monthly_points) ==
    [vndb_id |-> vndb_id, start_month |-> start_month, end_month |-> end_month,
     is_monthly_points |-> is_monthly_points]

\* /add_vn
add_vn(caller, guild, title, start_arg, end_arg, is_monthly_points, api_up) ==
    LET vndb_id == resolve_vn_from_input(title)
        start_month == get_vn_month(start_arg)
        end_month == IF end_arg = None THEN start_month ELSE get_vn_month(end_arg)
        got == from_vndb_id(vndb_cache, vndb_id, api_up)
        vn_info == got.entry
        inserted == ADD_VN_TITLE(vn_titles,
                                 vn_title(Val(vn_info).vndb_id, start_month, end_month,
                                          is_monthly_points))
    IN  /\ UNCHANGED <<now, reading_logs, next_log_id, roles, tick, call>>
        /\ IF ~user_has_permission(caller, roles[guild][caller])
           THEN /\ reply' = Answer("add_vn", "not authorized")
                /\ UNCHANGED <<vn_titles, vndb_cache>>
           ELSE IF check_if_already_exists(vn_titles, vndb_id)
           THEN /\ reply' = Answer("add_vn", "already exists")
                /\ UNCHANGED <<vn_titles, vndb_cache>>
           ELSE IF start_month = None \/ end_month = None
           THEN /\ reply' = Answer("add_vn", "invalid month")
                /\ UNCHANGED <<vn_titles, vndb_cache>>
           ELSE IF vn_info = None
           THEN /\ reply' = Answer("add_vn", "vndb id not found")
                /\ UNCHANGED <<vn_titles, vndb_cache>>
           ELSE /\ vndb_cache' = got.cache
                /\ vn_titles' = inserted.titles
                /\ reply' = Answer("add_vn", IF inserted.ok THEN "ok" ELSE "error")

\* /remove_vn
remove_vn(caller, guild, title) ==
    LET vndb_id == add_v_prefix(title)
    IN  /\ UNCHANGED <<now, vndb_cache, reading_logs, next_log_id, roles, tick, call>>
        /\ IF ~user_has_permission(caller, roles[guild][caller])
           THEN /\ reply' = Answer("remove_vn", "not authorized")
                /\ UNCHANGED vn_titles
           ELSE IF check_if_not_exists(vn_titles, vndb_id)
           THEN /\ reply' = Answer("remove_vn", "does not exist")
                /\ UNCHANGED vn_titles
           ELSE /\ vn_titles' = DELETE_VN_TITLE(vn_titles, vndb_id)
                /\ reply' = Answer("remove_vn", "ok")

---------------------------------------------------------------------------
(* The reward calculator: /finish_vn against the catalog and the clock *)

\* (comment length, rating, is api.vndb.org reachable) of a /finish_vn
FinishInputs ==
    {<<5, 3, TRUE>>, <<5, 3, FALSE>>, <<MAX_COMMENT_LENGTH + 1, 3, TRUE>>,
     <<5, 0, TRUE>>, <<5, MAX_RATING + 1, TRUE>>}

\* month arguments: absent, malformed ("2025-13"), or January 2025
MonthArgs == {None, <<2, 0, 2, 5, -3, 1, 3>>, get_current_month(StartClock + 1)}

CatalogIds == {<<"v", "1">>, <<"1">>}

\* a command of somebody who may not manage the catalog, or with an invalid comment
\* or rating, is answered before its other arguments are looked at: one choice of
\* those stands for all; user 1 submits every id, user 2 the catalogued one
NextReward ==
    \/ AdvanceMonth
    \/ \E vndb_id \in RawIds, api_up \in BOOLEAN :
        /\ finish_vn(1, vndb_id, 5, 3, "TMW", api_up)
        /\ Len(reading_logs') <= MaxFinish
    \/ /\ finish_vn(2, <<"v", "1">>, 5, 3, "TMW", TRUE)
       /\ Len(reading_logs') <= MaxFinish
    \/ \E in \in FinishInputs :
        /\ comment_invalid(in[1]) \/ rating_invalid(in[2])
        /\ finish_vn(1, <<"v", "1">>, in[1], in[2], "TMW", in[3])
    \/ \E title \in CatalogIds, start_arg \in MonthArgs, end_arg \in MonthArgs,
          api_up \in BOOLEAN :
        add_vn(1, "TMW", title, start_arg, end_arg, DEFAULT_MONTHLY_POINTS, api_up)
    \/ add_vn(2, "TMW", <<"v", "1">>, None, None, DEFAULT_MONTHLY_POINTS, TRUE)
    \/ \E caller \in Users, title \in CatalogIds :
        remove_vn(caller, "TMW", title)
    \/ reward_points(2, 1, 49, "bonus", "TMW")
    \/ delete_log(2, "TMW", 1)

SpecReward == Init /\ [][NextReward]_vars

---------------------------------------------------------------------------
(* The title catalog: /add_vn, /remove_vn and /get_current_monthly *)

\* ORDER BY start_month DESC, rows of one start_month in rowid order
RECURSIVE InsertByStart(_, _)
InsertByStart(row, sorted) ==
    IF sorted = <<>> THEN <<row>>
    ELSE IF StrLeq(Head(sorted).start_month, row.start_month)
    THEN <<row>> \o sorted
    ELSE <<Head(sorted)>> \o InsertByStart(row, Tail(sorted))

RECURSIVE ORDER_BY_start_month_DESC(_)
ORDER_BY_start_month_DESC(rows) ==
    IF rows = <<>> THEN <<>>
    ELSE InsertByStart(Head(rows), ORDER_BY_start_month_DESC(Tail(rows)))

\* faulty variant: the end of the window is not looked at
GET_CURRENT_MONTHLY_VNS_open_end(titles, month) ==
    LET Current(r) == StrLeq(r.start_month, month)
    IN  ORDER_BY_start_month_DESC(SelectSeq(titles, Current))

\* GET_CURRENT_MONTHLY_VNS: WHERE start_month <= ? AND end_month >= ?, on TEXT
GET_CURRENT_MONTHLY_VNS(titles, month) ==
    LET Current(r) == StrLeq(r.start_month, month) /\ StrLeq(month, r.end_month)
    IN  ORDER_BY_start_month_DESC(SelectSeq(titles, Current))

\* the loop of get_current_monthly: a row is shown when from_vndb_id has its entry
RECURSIVE vn_embeds(_, _, _)
vn_embeds(results, cache, api_up) ==
    IF results = <<>> THEN [shown |-> <<>>, cache |-> cache]
    ELSE LET got == from_vndb_id(cache, Head(results).vndb_id, api_up)
             rest == vn_embeds(Tail(results), got.cache, api_up)
         IN  [shown |-> (IF got.entry = None THEN <<>> ELSE <<Head(results)>>) \o rest.shown,
              cache |-> rest.cache]

\* /get_current_monthly
get_current_monthly(api_up) ==
    LET current_month == get_current_month(now)
        results == GET_CURRENT_MONTHLY_VNS(vn_titles, current_month)
        embeds == vn_embeds(results, vndb_cache, api_up)
    IN  /\ UNCHANGED <<now, vn_titles, reading_logs, next_log_id, roles, tick, call>>
        /\ vndb_cache' = embeds.cache
        /\ reply' = [op |-> "get_current_monthly",
                     status |-> IF embeds.shown = <<>> THEN "none found" ELSE "ok",
                     out |-> <<current_month, embeds.shown>>]

MaxCatalogMonths == 4

\* month arguments: absent, malformed ("2025-13"), January and March 2025
CatalogMonthArgs ==
    {None, <<2, 0, 2, 5, -3, 1, 3>>, get_current_month(StartClock + 1),
     get_current_month(StartClock + 3)}

NextCatalog ==
    \/ /\ now < StartClock + MaxCatalogMonths
       /\ now' = now + 1
       /\ UNCHANGED <<vn_titles, vndb_cache, reading_logs, next_log_id, roles, tick, reply, call>>
    \/ \E title \in RawIds, start_arg \in CatalogMonthArgs, end_arg \in CatalogMonthArgs,
          api_up \in BOOLEAN :
        add_vn(1, "TMW", title, start_arg, end_arg, DEFAULT_MONTHLY_POINTS, api_up)
    \/ add_vn(2, "TMW", <<"v", "1">>, None, None, DEFAULT_MONTHLY_POINTS, TRUE)
    \/ \E caller \in Users, title \in RawIds :
        remove_vn(caller, "TMW", title)
    \/ \E api_up \in BOOLEAN :
        get_current_monthly(api_up)

SpecCatalog == Init /\ [][NextCatalog]_vars

---------------------------------------------------------------------------
(* /add_vn and /remove_vn of several managers at once: a command gives way to the
   others at its awaits, after its checks and before its write to vn_titles *)

\* call without its i-th element
Without(calls, i) == [k \in 1..(Len(calls) - 1) |-> IF k < i THEN calls[k] ELSE calls[k + 1]]

\* /add_vn up to get_vn_month: the checks; the command then waits for from_vndb_id
add_vn_check(caller, guild, title, start_arg, end_arg, is_monthly_points) ==
    LET vndb_id == resolve_vn_from_input(title)
        start_month == get_vn_month(start_arg)
        end_month == IF end_arg = None THEN start_month ELSE get_vn_month(end_arg)
    IN  /\ UNCHANGED <<now, vn_titles, vndb_cache, reading_logs, next_log_id, roles, tick>>
        /\ IF ~user_has_permission(caller, roles[guild][caller])
           THEN reply' = Answer("add_vn", "not authorized") /\ call' = call
           ELSE IF check_if_already_exists(vn_titles, vndb_id)
           THEN reply' = Answer("add_vn", "already exists") /\ call' = call
           ELSE IF start_month = None \/ end_month = None
           THEN reply' = Answer("add_vn", "invalid month") /\ call' = call
           ELSE /\ reply' = reply
                /\ call' = Append(call, [op |-> "add_vn", vndb_id |-> vndb_id,
                                         start_month |-> start_month,
                                         end_month |-> end_month,
                                         is_monthly_points |-> is_monthly_points])

\* /add_vn from get_vndb_info on: the entry of the title and the insert
add_vn_insert(i, api_up) ==
    LET got == from_vndb_id(vndb_cache, call[i].vndb_id, api_up)
        vn_info == got.entry
        inserted == ADD_VN_TITLE(vn_titles,
                                 vn_title(Val(vn_info).vndb_id, call[i].start_month,
                                          call[i].end_month, call[i].is_monthly_points))
    IN  /\ call[i].op = "add_vn"
        /\ UNCHANGED <<now, reading_logs, next_log_id, roles, tick>>
        /\ call' = Without(call, i)
        /\ IF vn_info = None
           THEN /\ reply' = Answer("add_vn", "vndb id not found")
                /\ UNCHANGED <<vn_titles, vndb_cache>>
           ELSE /\ vndb_cache' = got.cache
                /\ vn_titles' = inserted.titles
                /\ reply' = Answer("add_vn", IF inserted.ok THEN "ok" ELSE "error")

\* /remove_vn up to check_if_not_exists
remove_vn_check(caller, guild, title) ==
    LET vndb_id == add_v_prefix(title)
    IN  /\ UNCHANGED <<now, vn_titles, vndb_cache, reading_logs, next_log_id, roles, tick>>
        /\ IF ~user_has_permission(caller, roles[guild][caller])
           THEN reply' = Answer("remove_vn", "not authorized") /\ call' = call
           ELSE IF check_if_not_exists(vn_titles, vndb_id)
           THEN reply' = Answer("remove_vn", "does not exist") /\ call' = call
           ELSE /\ reply' = reply
                /\ call' = Append(call, [op |-> "remove_vn", vndb_id |-> vndb_id])

\* /remove_vn: DELETE_VN_TITLE and the answer
remove_vn_delete(i) ==
    /\ call[i].op = "remove_vn"
    /\ UNCHANGED <<now, vndb_cache, reading_logs, next_log_id, roles, tick>>
    /\ call' = Without(call, i)
    /\ vn_titles' = DELETE_VN_TITLE(vn_titles, call[i].vndb_id)
    /\ reply' = Answer("remove_vn", "ok")

MaxCalls == 2

RaceMonthArgs == {None, get_current_month(StartClock + 1)}

NextCatalogRace ==
    \/ \E caller \in Users, title \in RawIds, start_arg \in RaceMonthArgs :
        /\ Len(call) < MaxCalls
        /\ add_vn_check(caller, "TMW", title, start_arg, None, DEFAULT_MONTHLY_POINTS)
    \/ \E i \in 1..Len(call), api_up \in BOOLEAN :
        add_vn_insert(i, api_up)
    \/ \E caller \in Users, title \in RawIds :
        /\ Len(call) < MaxCalls
        /\ remove_vn_check(caller, "TMW", title)
    \/ \E i \in 1..Len(call) :
        remove_vn_delete(i)

SpecCatalogRace == Init /\ [][NextCatalogRace]_vars

---------------------------------------------------------------------------
(* /finish_vn as the event loop runs it: a command goes on from one await to the
   next while other commands take their steps in between *)

\* faulty variant: a second row for a (user_id, vndb_id) pair is refused by the table
ADD_READING_LOG_unique_pair(logs, row) ==
    IF GET_USER_VN_LOG(logs, row.user_id, row.vndb_id) /= <<>>
    THEN [ok |-> FALSE, logs |-> logs]
    ELSE [ok |-> TRUE, logs |-> Append(logs, row)]

\* ADD_READING_LOG: reading_logs has no key but log_id, every insert succeeds
ADD_READING_LOG(logs, row) == [ok |-> TRUE, logs |-> Append(logs, row)]

\* ADD_VNDB_ENTRY_QUERY: a plain INSERT, sqlite3.IntegrityError when vndb_id is there
ADD_VNDB_ENTRY(cache, entry) ==
    IF cache[entry.vndb_id] /= None THEN [ok |-> FALSE, cache |-> cache]
    ELSE [ok |-> TRUE, cache |-> [cache EXCEPT ![entry.vndb_id] = Some(cache_row(entry))]]

\* /finish_vn with a valid comment and rating, up to _get_from_db in from_vndb_id
finish_vn_lookup(user, vndb_id, guild) ==
    LET current_month == get_current_month(now)
        result == get_single_monthly_vn(vn_titles, vndb_id)
        read_in_monthly ==
            /\ result /= None
            /\ is_month_in_range(current_month, Val(result).start_month,
                                 Val(result).end_month)
        vn_info == vndb_cache[add_v_prefix(vndb_id)]
    IN  /\ UNCHANGED <<now, vn_titles, vndb_cache, reading_logs, next_log_id, roles, tick,
                       reply>>
        /\ call' = Append(call, [op |-> "finish_vn",
                                 pc |-> IF vn_info = None THEN "fetch" ELSE "check",
                                 user |-> user, vndb_id |-> vndb_id, guild |-> guild,
                                 current_month |-> current_month,
                                 read_in_monthly |-> read_in_monthly,
                                 is_monthly_points |->
                                     IF result = None THEN None
                                     ELSE Some(Val(result).is_monthly_points),
                                 vn_info |-> vn_info])

\* from_vndb_id after a miss: _fetch_from_vndb and save_to_db
finish_vn_fetch(i, api_up) ==
    LET fetched == _fetch_from_vndb(add_v_prefix(call[i].vndb_id), api_up)
        saved == ADD_VNDB_ENTRY(vndb_cache, Val(fetched))
    IN  /\ call[i].op = "finish_vn" /\ call[i].pc = "fetch"
        /\ UNCHANGED <<now, vn_titles, reading_logs, next_log_id, roles, tick>>
        /\ IF fetched = None
           THEN /\ reply' = Answer("finish_vn", "vndb id not found")
                /\ call' = Without(call, i)
                /\ UNCHANGED vndb_cache
           ELSE IF ~saved.ok
           THEN /\ reply' = Answer("finish_vn", "error")
                /\ call' = Without(call, i)
                /\ UNCHANGED vndb_cache
           ELSE /\ vndb_cache' = saved.cache
                /\ call' = [call EXCEPT ![i].pc = "check", ![i].vn_info = fetched]
                /\ reply' = reply

\* log_already_exists, then the points and GET_USER_TOTAL_POINTS
finish_vn_check(i) ==
    /\ call[i].op = "finish_vn" /\ call[i].pc = "check"
    /\ UNCHANGED <<now, vn_titles, vndb_cache, reading_logs, next_log_id, roles, tick>>
    /\ IF log_already_exists(reading_logs, call[i].user, call[i].vndb_id)
       THEN /\ reply' = Answer("finish_vn", "already logged")
            /\ call' = Without(call, i)
       ELSE /\ reply' = reply
            /\ call' = [call EXCEPT ![i].pc = "insert"]

\* the points of the call in flight
finish_vn_points(c) ==
    IF c.read_in_monthly THEN PyInt(Val(c.is_monthly_points))
    ELSE get_points_not_monthly(Val(c.vn_info))

\* the row of the call in flight
finish_vn_row(c, log_id) ==
    reading_log(log_id, c.user, c.vndb_id, Some(3),
                IF c.read_in_monthly THEN "As Monthly VN" ELSE "As Non-Monthly VN",
                c.current_month, to_integer(finish_vn_points(c)), Some(5), c.guild)

\* RUN(ADD_READING_LOG) and the answer
finish_vn_insert(i) ==
    LET inserted == ADD_READING_LOG(reading_logs, finish_vn_row(call[i], next_log_id))
    IN  /\ call[i].op = "finish_vn" /\ call[i].pc = "insert"
        /\ UNCHANGED <<now, vn_titles, vndb_cache, roles, tick>>
        /\ call' = Without(call, i)
        /\ reading_logs' = inserted.logs
        /\ next_log_id' = IF inserted.ok THEN next_log_id + 1 ELSE next_log_id
        /\ reply' = Answer("finish_vn",
                           IF inserted.ok /\ finish_vn_points(call[i]).t = "int"
                           THEN "ok" ELSE "error")

\* the two spellings of one title
RaceIds == {<<"v", "1">>, <<"1">>}

NextFinishRace ==
    \/ \E user \in Users, vndb_id \in RaceIds :
        /\ Len(call) < MaxCalls
        /\ finish_vn_lookup(user, vndb_id, "TMW")
    \/ \E i \in 1..Len(call), api_up \in BOOLEAN :
        finish_vn_fetch(i, api_up)
    \/ \E i \in 1..Len(call) :
        finish_vn_check(i)
    \/ \E i \in 1..Len(call) :
        /\ finish_vn_insert(i)
        /\ Len(reading_logs') <= MaxLog

SpecFinishRace == Init /\ [][NextFinishRace]_vars

---------------------------------------------------------------------------
(* The completion ledger: /finish_vn, /reward_points and /delete_log *)

RewardAmounts == {-1, 49}

NextLedger ==
    \/ \E user \in Users, vndb_id \in RawIds, in \in FinishInputs, guild \in GuildSet :
        /\ finish_vn(user, vndb_id, in[1], in[2], guild, in[3])
        /\ Len(reading_logs') <= MaxLog
    \/ \E caller \in Users, member \in Users, points \in RewardAmounts, guild \in GuildSet :
        /\ reward_points(caller, member, points, "bonus", guild)
        /\ Len(reading_logs') <= MaxLog
    \/ \E caller \in Users, guild \in GuildSet, log_id \in 1..MaxLog :
        delete_log(caller, guild, log_id)

SpecLedger == Init /\ [][NextLedger]_vars

---------------------------------------------------------------------------
(* get_points_not_monthly on its own: every length the metadata may carry *)

Lengths == {None} \cup {Some(n) : n \in (0..MaxMinutes) \cup {7200}}
LengthRatings == {None} \cup {Some(PyInt(n)) : n \in 1..5} \cup {Some(PyStr(n)) : n \in 1..5}

InitPoints ==
    /\ InitTables
    /\ \E lm \in Lengths, lr \in LengthRatings :
        call = [length_minutes |-> lm, length_rating |-> lr, done |-> FALSE, result |-> None]

ApplyPoints ==
    /\ ~call.done
    /\ call' = [call EXCEPT !.done = TRUE, !.result =
                    Some(get_points_not_monthly(
                        [vndb_id |-> <<"v", "1">>, length_minutes |-> call.length_minutes,
                         length_rating |-> call.length_rating]))]
    /\ UNCHANGED <<now, vn_titles, vndb_cache, reading_logs, next_log_id, roles, tick, reply>>

SpecPoints == InitPoints /\ [][ApplyPoints]_vars

---------------------------------------------------------------------------
(* cogs/role_rewards.py: the tier of a total *)

\* REWARD_STRUCTURE: guild -> the (points threshold, role) items, in dict order
REWARD_STRUCTURE ==
    [TMW |-> << <<1, "Whitenoise">>, <<50, "Jouzu">>, <<100, "Dekiru">> >>,
     DJT |-> << <<1, "DJT1">>, <<20, "DJT2">> >>]

TierRoles(guild) ==
    {REWARD_STRUCTURE[guild][i][2] : i \in 1..Len(REWARD_STRUCTURE[guild])}

\* sorted(items, key=item[k]): a stable insertion sort (dict keys are distinct, so
\* the role never decides the order of threshold items); reverse=True turns the
\* comparison round and keeps equal items in their original order
RECURSIVE Insert(_, _, _, _)
Insert(item, sorted, k, reverse) ==
    IF sorted = <<>> THEN <<item>>
    ELSE IF (IF reverse THEN item[k] >= Head(sorted)[k] ELSE item[k] <= Head(sorted)[k])
    THEN <<item>> \o sorted
    ELSE <<Head(sorted)>> \o Insert(item, Tail(sorted), k, reverse)

RECURSIVE Sorted(_, _, _)
Sorted(items, k, reverse) ==
    IF items = <<>> THEN <<>>
    ELSE Insert(Head(items), Sorted(Tail(items), k, reverse), k, reverse)

\* the loop of determine_correct_role: the first item whose threshold is reached
RECURSIVE first_reached(_, _)
first_reached(items, total_points) ==
    IF items = <<>> THEN None
    ELSE IF total_points >= Head(items)[1] THEN Some(Head(items)[2])
    ELSE first_reached(Tail(items), total_points)

\* faulty variant: the items are scanned in ascending order of threshold
determine_correct_role_ascending(guild, total_points) ==
    first_reached(Sorted(REWARD_STRUCTURE[guild], 1, FALSE), total_points)

\* faulty variant: a total below every threshold gets the tier of the lowest one
determine_correct_role_lowest(guild, total_points) ==
    LET role == first_reached(Sorted(REWARD_STRUCTURE[guild], 1, TRUE), total_points)
    IN  IF role = None THEN Some(Sorted(REWARD_STRUCTURE[guild], 1, FALSE)[1][2]) ELSE role

determine_correct_role(guild, total_points) ==
    first_reached(Sorted(REWARD_STRUCTURE[guild], 1, TRUE), total_points)

InitRole ==
    /\ InitTables
    /\ \E guild \in GuildSet, total \in (0 - MaxTotal)..MaxTotal :
        call = [guild |-> guild, total_points |-> total, done |-> FALSE, result |-> None]

ApplyRole ==
    /\ ~call.done
    /\ call' = [call EXCEPT !.done = TRUE, !.result =
                    Some(determine_correct_role(call.guild, call.total_points))]
    /\ UNCHANGED <<now, vn_titles, vndb_cache, reading_logs, next_log_id, roles, tick, reply>>

SpecRole == InitRole /\ [][ApplyRole]_vars

---------------------------------------------------------------------------
(* cogs/vn_user_commands.py: the leaderboard *)

BoardUsers == Users \cup {3}

\* get_username_db: the display identity of a user id; two ids may share one
get_username_db(user_id) == IF user_id = 3 THEN "bob" ELSE "alice"

\* ORDER BY reward_month DESC, rows of one month in log_id order
RECURSIVE InsertByMonth(_, _)
InsertByMonth(row, sorted) ==
    IF sorted = <<>> THEN <<row>>
    ELSE IF StrLeq(Head(sorted).reward_month, row.reward_month)
    THEN <<row>> \o sorted
    ELSE <<Head(sorted)>> \o InsertByMonth(row, Tail(sorted))

RECURSIVE ORDER_BY_reward_month_DESC(_)
ORDER_BY_reward_month_DESC(rows) ==
    IF rows = <<>> THEN <<>>
    ELSE InsertByMonth(Head(rows), ORDER_BY_reward_month_DESC(Tail(rows)))

\* GET_ALL_LOGS, GET_LOGS_BY_MONTH, GET_LOGS_BY_SERVER, GET_LOGS_BY_MONTH_AND_SERVER:
\* a filter that is None is not applied
GET_LOGS(logs, month, server) ==
    LET Match(r) ==
            /\ month /= None => r.reward_month = Val(month)
            /\ server /= None => r.logged_in_guild = Val(server)
    IN  ORDER_BY_reward_month_DESC(SelectSeq(logs, Match))

\* faulty variant: a row's points replace the user's sum instead of adding to it
add_to_leaderboard_overwrite(leaderboard, username, points) ==
    IF \E i \in 1..Len(leaderboard) : leaderboard[i][1] = username
    THEN [i \in 1..Len(leaderboard) |->
             IF leaderboard[i][1] = username THEN <<username, points>>
             ELSE leaderboard[i]]
    ELSE Append(leaderboard, <<username, points>>)

\* if username not in leaderboard: leaderboard[username] = 0
\* leaderboard[username] += points       (a dict, in insertion order)
add_to_leaderboard(leaderboard, username, points) ==
    IF \E i \in 1..Len(leaderboard) : leaderboard[i][1] = username
    THEN [i \in 1..Len(leaderboard) |->
             IF leaderboard[i][1] = username THEN <<username, leaderboard[i][2] + points>>
             ELSE leaderboard[i]]
    ELSE Append(leaderboard, <<username, 0 + points>>)

RECURSIVE build_leaderboard(_, _)
build_leaderboard(results, leaderboard) ==
    IF results = <<>> THEN leaderboard
    ELSE build_leaderboard(Tail(results),
                           add_to_leaderboard(leaderboard,
                                              get_username_db(Head(results).user_id),
                                              Head(results).points))

\* faulty variant: the leaderboard is left in the order of first appearance
sorted_leaderboard_unsorted(leaderboard) == leaderboard

\* sorted(leaderboard.items(), key=lambda x: x[1], reverse=True)
sorted_leaderboard(leaderboard) == Sorted(leaderboard, 2, TRUE)

\* int(server): the guild id of a server argument, None when it is no number
int_server(server) == IF server \in GuildSet THEN Some(server) ELSE None

\* /vn_leaderboard
vn_leaderboard(month, server) ==
    LET guild == IF server = None THEN None ELSE int_server(Val(server))
        results == GET_LOGS(reading_logs, month, guild)
    IN  /\ UNCHANGED <<now, vn_titles, vndb_cache, reading_logs, next_log_id, roles, tick, call>>
        /\ IF server /= None /\ guild = None
           THEN reply' = Answer("vn_leaderboard", "error")
           ELSE IF results = <<>>
           THEN reply' = Answer("vn_leaderboard", "no reading logs found")
           ELSE reply' = [op |-> "vn_leaderboard", status |-> "ok",
                          out |-> <<month, guild,
                                    sorted_leaderboard(build_leaderboard(results, <<>>))>>]

\* sum(users.values())
RECURSIVE SumTotals(_)
SumTotals(board) == IF board = <<>> THEN 0 ELSE Head(board)[2] + SumTotals(Tail(board))

\* leaderboard[logged_in_guild][username] += points, both dicts created on first
\* use and kept in insertion order
add_to_server_leaderboard(leaderboard, logged_in_guild, username, points) ==
    IF \E i \in 1..Len(leaderboard) : leaderboard[i][1] = logged_in_guild
    THEN [i \in 1..Len(leaderboard) |->
             IF leaderboard[i][1] = logged_in_guild
             THEN <<logged_in_guild, add_to_leaderboard(leaderboard[i][2], username, points)>>
             ELSE leaderboard[i]]
    ELSE Append(leaderboard,
                <<logged_in_guild, add_to_leaderboard(<<>>, username, points)>>)

RECURSIVE build_server_leaderboard(_, _)
build_server_leaderboard(results, leaderboard) ==
    IF results = <<>> THEN leaderboard
    ELSE build_server_leaderboard(Tail(results),
             add_to_server_leaderboard(leaderboard, Head(results).logged_in_guild,
                                       get_username_db(Head(results).user_id),
                                       Head(results).points))

\* for guild_id, users in leaderboard.items(): if users:
\*     server_totals.append((guild_id, sum(users.values())))
RECURSIVE server_totals(_)
server_totals(leaderboard) ==
    IF leaderboard = <<>> THEN <<>>
    ELSE IF Head(leaderboard)[2] = <<>> THEN server_totals(Tail(leaderboard))
    ELSE <<<<Head(leaderboard)[1], SumTotals(Head(leaderboard)[2])>>>>
             \o server_totals(Tail(leaderboard))

\* faulty variant: the servers are left in the order of first appearance
sort_server_totals_unsorted(totals) == totals

\* server_totals.sort(key=lambda x: x[1], reverse=True)
sort_server_totals(totals) == Sorted(totals, 2, TRUE)

\* /vn_server_leaderboard: the ranked (guild, total) pairs of the embed's fields
vn_server_leaderboard ==
    LET results == GET_LOGS(reading_logs, None, None)
        leaderboard == build_server_leaderboard(results, <<>>)
        sorted_totals == sort_server_totals(server_totals(leaderboard))
    IN  /\ UNCHANGED <<now, vn_titles, vndb_cache, reading_logs, next_log_id, roles, tick, call>>
        /\ IF results = <<>>
           THEN reply' = Answer("vn_server_leaderboard", "no reading logs found")
           ELSE IF sorted_totals = <<>>
           THEN reply' = Answer("vn_server_leaderboard", "no server data found")
           ELSE reply' = [op |-> "vn_server_leaderboard", status |-> "ok",
                          out |-> sorted_totals]

\* GET_USER_LOGS: the columns selected
GET_USER_LOGS_columns ==
    <<"log_id", "user_id", "vndb_id", "user_rating", "reward_reason", "reward_month",
      "points", "comment", "logged_in_guild">>

\* ORDER BY reward_month DESC, log_id DESC
RECURSIVE InsertByMonthAndId(_, _)
InsertByMonthAndId(row, sorted) ==
    IF sorted = <<>> THEN <<row>>
    ELSE IF \/ ~StrLeq(row.reward_month, Head(sorted).reward_month)
            \/ (row.reward_month = Head(sorted).reward_month /\ row.log_id > Head(sorted).log_id)
    THEN <<row>> \o sorted
    ELSE <<Head(sorted)>> \o InsertByMonthAndId(row, Tail(sorted))

RECURSIVE ORDER_BY_reward_month_DESC_log_id_DESC(_)
ORDER_BY_reward_month_DESC_log_id_DESC(rows) ==
    IF rows = <<>> THEN <<>>
    ELSE InsertByMonthAndId(Head(rows), ORDER_BY_reward_month_DESC_log_id_DESC(Tail(rows)))

\* GET_USER_LOGS: ... WHERE user_id = ? ORDER BY reward_month DESC, log_id DESC
GET_USER_LOGS(logs, user_id) ==
    LET Mine(r) == r.user_id = user_id
    IN  ORDER_BY_reward_month_DESC_log_id_DESC(SelectSeq(logs, Mine))

\* the names user_logs unpacks each row into
user_logs_targets ==
    <<"user_id", "vndb_id", "user_rating", "reward_reason", "reward_month", "points",
      "comment", "logged_in_guild">>

\* /user_logs: the log entries shown, one for each row, in the order of the query
user_logs(member) ==
    LET results == GET_USER_LOGS(reading_logs, member)
    IN  /\ UNCHANGED <<now, vn_titles, vndb_cache, reading_logs, next_log_id, roles, tick, call>>
        /\ IF results = <<>>
           THEN reply' = Answer("user_logs", "no reading logs found")
           ELSE IF ~unpack_ok(GET_USER_LOGS_columns, user_logs_targets)
           THEN reply' = Answer("user_logs", "error")
           ELSE reply' = [op |-> "user_logs", status |-> "ok", out |-> results]

MonthFilters == {None} \cup {Some(get_current_month(StartClock + i)) : i \in 0..1}
ServerFilters == {None, Some("abc")} \cup {Some(g) : g \in GuildSet}

NextBoard ==
    \/ /\ now < StartClock + 1
       /\ AdvanceMonth
    \/ \E member \in BoardUsers, points \in RewardAmounts, guild \in GuildSet :
        /\ reward_points(1, member, points, "bonus", guild)
        /\ Len(reading_logs') <= MaxLog
    \/ \E guild \in GuildSet :
        /\ finish_vn(3, <<"v", "1">>, 5, 3, guild, TRUE)
        /\ Len(reading_logs') <= MaxLog
    \/ \E month \in MonthFilters, server \in ServerFilters :
        vn_leaderboard(month, server)
    \/ vn_server_leaderboard
    \/ \E member \in BoardUsers :
        user_logs(member)

SpecBoard == Init /\ [][NextBoard]_vars

---------------------------------------------------------------------------
(* cogs/role_rewards.py: the check_rewards task *)

\* guild.get_member(user_id) finds the members of the guild
Members(guild) == IF guild = "TMW" THEN {1, 2} ELSE {2}

UserIds == <<1, 2>>

\* TOTAL_USER_POINTS_QUERY: SELECT user_id, SUM(points) FROM reading_logs
\* GROUP BY user_id: one row per user with rows, over the rows of all guilds
RECURSIVE GroupByUser(_, _)
GroupByUser(logs, ids) ==
    IF ids = <<>> THEN <<>>
    ELSE (IF GET_USER_TOTAL_POINTS(logs, Head(ids)) = None THEN <<>>
          ELSE << <<Head(ids), Val(GET_USER_TOTAL_POINTS(logs, Head(ids)))>> >>)
         \o GroupByUser(logs, Tail(ids))

TOTAL_USER_POINTS_QUERY(logs) == GroupByUser(logs, UserIds)

\* faulty variant: every role but role_to_keep is removed
remove_other_roles_all(member_roles, guild, role_to_keep) ==
    {role \in member_roles : role /= role_to_keep}

\* roles_to_remove of remove_other_roles
remove_other_roles(member_roles, guild, role_to_keep) ==
    {role \in member_roles : role /= role_to_keep /\ role \in TierRoles(guild)}

\* faulty variant: the role is granted whether or not the member holds it
needs_update_always(role_to_keep, member_roles) == role_to_keep /= None

\* if role_to_keep and role_to_keep not in user.roles
needs_update(role_to_keep, member_roles) ==
    role_to_keep /= None /\ Val(role_to_keep) \notin member_roles

\* check_rewards: the query and the data dict; with no rows the run is over
check_rewards_start ==
    /\ tick.pc = "idle"
    /\ LET result == TOTAL_USER_POINTS_QUERY(reading_logs)
       IN  tick' = IF result = <<>>
                   THEN [Idle EXCEPT !.ran = TRUE, !.ok = TRUE,
                                     !.ledger = reading_logs, !.held = roles]
                   ELSE [pc |-> "run", data |-> result, g |-> 1, u |-> 1, calls |-> <<>>,
                         repeat |-> tick.ran /\ tick.ledger = reading_logs
                                             /\ tick.held = roles,
                         ran |-> tick.ran, ok |-> tick.ok,
                         ledger |-> reading_logs, held |-> NoRoles]
    /\ UNCHANGED <<now, vn_titles, vndb_cache, reading_logs, next_log_id, roles, reply, call>>

\* the body of the inner loop for the user the loops have come to; outcome tells
\* which of the two calls to the guild, if any, raises. An exception leaves both
\* loops for the except clause, which ends the run
check_member(outcome) ==
    /\ tick.pc = "run"
    /\ tick.g <= Len(Guilds)
    /\ LET guild == Guilds[tick.g]
           user_id == tick.data[tick.u][1]
           total_points == tick.data[tick.u][2]
           role_to_keep == determine_correct_role(guild, total_points)
           roles_to_remove == remove_other_roles(roles[guild][user_id], guild,
                                                 Val(role_to_keep))
           removed == [roles EXCEPT ![guild][user_id] = @ \ roles_to_remove]
           added == [removed EXCEPT ![guild][user_id] = @ \cup {Val(role_to_keep)}]
           next == IF tick.u < Len(tick.data) THEN [tick EXCEPT !.u = @ + 1]
                   ELSE [tick EXCEPT !.g = @ + 1, !.u = 1]
           raised(held) == [Idle EXCEPT !.ran = TRUE, !.ok = FALSE,
                                        !.ledger = tick.ledger, !.held = held]
           remove_call == IF roles_to_remove = {} THEN <<>>
                          ELSE << <<"remove_roles", guild, user_id, roles_to_remove>> >>
       IN  IF ~(user_id \in Members(guild)
                /\ needs_update(role_to_keep, roles[guild][user_id]))
           THEN /\ outcome = "ok"
                /\ tick' = next
                /\ roles' = roles
           ELSE \/ /\ outcome = "remove_roles raises"
                   /\ roles_to_remove /= {}
                   /\ roles' = roles
                   /\ tick' = raised(roles)
                \/ /\ outcome = "add_roles raises"
                   /\ roles' = removed
                   /\ tick' = raised(removed)
                \/ /\ outcome = "ok"
                   /\ roles' = added
                   /\ tick' = [next EXCEPT !.calls = @ \o remove_call \o
                                   << <<"add_roles", guild, user_id, Val(role_to_keep)>> >>]
    /\ UNCHANGED <<now, vn_titles, vndb_cache, reading_logs, next_log_id, reply, call>>

\* both loops are through: the run ends without an exception
check_rewards_return ==
    /\ tick.pc = "run"
    /\ tick.g > Len(Guilds)
    /\ tick' = [Idle EXCEPT !.ran = TRUE, !.ok = TRUE,
                            !.ledger = tick.ledger, !.held = roles]
    /\ UNCHANGED <<now, vn_titles, vndb_cache, reading_logs, next_log_id, roles, reply, call>>

\* somebody else gives the member other roles; member.roles follows the guild
member_update(guild, member, new_roles) ==
    /\ new_roles /= roles[guild][member]
    /\ roles' = [roles EXCEPT ![guild][member] = new_roles]
    /\ UNCHANGED <<now, vn_titles, vndb_cache, reading_logs, next_log_id, tick, reply, call>>

\* the roles of a guild: its tier roles and one role that is no tier role
GuildRoles(guild) == TierRoles(guild) \cup {"Helper"}

\* the role sets member 2 is given from outside: every set of tier roles, and the
\* other role alone and together with a tier role
HeldRoles == SUBSET TierRoles("TMW") \cup {{"Helper"}, {"Helper", "Jouzu"}}

MaxTickLog == 3
TickGrants == {<<1, 49, "TMW">>, <<2, 49, "TMW">>, <<2, -2, "DJT">>}
Outcomes == {"ok", "remove_roles raises", "add_roles raises"}

\* the commands run between the steps of a run; the roles of a member change from
\* outside only between two runs
NextTick ==
    \/ \E grant \in TickGrants :
        /\ reward_points(1, grant[1], grant[2], "bonus", grant[3])
        /\ Len(reading_logs') <= MaxTickLog
    \/ /\ finish_vn(2, <<"v", "1">>, 5, 3, "TMW", TRUE)
       /\ Len(reading_logs') <= MaxTickLog
    \/ \E new_roles \in HeldRoles :
        /\ tick.pc = "idle"
        /\ member_update("TMW", 2, new_roles)
    \/ check_rewards_start
    \/ \E outcome \in Outcomes : check_member(outcome)
    \/ check_rewards_return

SpecTick == Init /\ [][NextTick]_vars

---------------------------------------------------------------------------
(* cogs/role_rewards.py: on_ready and the tasks.loop that runs check_rewards.
   call holds the asyncio tasks the Loop object has created, each waiting for its
   next iteration, in the body of check_rewards, or done *)

MaxReady == 4
MaxIterations == 6

\* faulty variant: the Loop never reports a live task
is_running_never(loops) == FALSE

\* Loop.is_running(): the Loop has a task that is not done
is_running(loops) == \E i \in 1..Len(loops) : loops[i].pc /= "done"

\* Loop.start(): a new task whose first iteration is due at once; RuntimeError when
\* the Loop has a task that is not done
start(loops) ==
    IF is_running(loops) THEN loops
    ELSE Append(loops, [pc |-> "wait", due |-> TRUE, iterations |-> 0])

\* on_ready: if not self.check_rewards.is_running(): self.check_rewards.start()
on_ready ==
    /\ call.readies < MaxReady
    /\ call' = [readies |-> call.readies + 1,
                loops |-> IF ~is_running(call.loops) THEN start(call.loops)
                          ELSE call.loops]
    /\ UNCHANGED <<now, vn_titles, vndb_cache, reading_logs, next_log_id, roles, tick, reply>>

\* the five minutes since the start of a task's last iteration are over, whether
\* that iteration has ended or not
interval_elapsed(i) ==
    /\ call.loops[i].pc /= "done"
    /\ ~call.loops[i].due
    /\ call' = [call EXCEPT !.loops[i].due = TRUE]
    /\ UNCHANGED <<now, vn_titles, vndb_cache, reading_logs, next_log_id, roles, tick, reply>>

\* a task that waits and whose next iteration is due calls check_rewards
iteration_begin(i) ==
    /\ call.loops[i].pc = "wait"
    /\ call.loops[i].due
    /\ call.loops[i].iterations < MaxIterations
    /\ call' = [call EXCEPT !.loops[i].pc = "body", !.loops[i].due = FALSE,
                            !.loops[i].iterations = @ + 1]
    /\ UNCHANGED <<now, vn_titles, vndb_cache, reading_logs, next_log_id, roles, tick, reply>>

\* check_rewards returns (its try block also turns an exception of the loops into
\* a return); the task waits for its next iteration
iteration_end(i) ==
    /\ call.loops[i].pc = "body"
    /\ call' = [call EXCEPT !.loops[i].pc = "wait"]
    /\ UNCHANGED <<now, vn_titles, vndb_cache, reading_logs, next_log_id, roles, tick, reply>>

\* the query of line 70, outside the try block, raises: the task of the Loop ends
iteration_raise(i) ==
    /\ call.loops[i].pc = "body"
    /\ call' = [call EXCEPT !.loops[i].pc = "done"]
    /\ UNCHANGED <<now, vn_titles, vndb_cache, reading_logs, next_log_id, roles, tick, reply>>

InitLoop == InitTables /\ call = [readies |-> 0, loops |-> <<>>]

NextLoop ==
    \/ on_ready
    \/ \E i \in 1..Len(call.loops) : interval_elapsed(i)
    \/ \E i \in 1..Len(call.loops) : iteration_begin(i)
    \/ \E i \in 1..Len(call.loops) : iteration_end(i)
    \/ \E i \in 1..Len(call.loops) : iteration_raise(i)

SpecLoop == InitLoop /\ [][NextLoop]_vars

---------------------------------------------------------------------------
(* Properties of the reward calculator and the ledger *)

\* the calendar month a "YYYY-MM" string names, in months since year 0
MonthNum(s) ==
    (s[1] * 1000 + s[2] * 100 + s[3] * 10 + s[4]) * 12 + (s[6] * 10 + s[7]) - 1

Last(rows) == rows[Len(rows)]

HasLog(logs, user, vndb_id) ==
    \E i \in 1..Len(logs) : logs[i].user_id = user /\ logs[i].vndb_id = vndb_id

TotalOf(logs, user) ==
    LET Mine(r) == r.user_id = user
    IN  SumPoints(SelectSeq(logs, Mine))

\* C1: a completion recorded by finish_vn for a title of the catalog, in a month p
\* with start_month <= p <= end_month, carries the entry's is_monthly_points and
\* the monthly reason; recorded before start_month, after end_month or for a
\* title that is not in the catalog it carries the length-derived points and the
\* non-monthly reason.
C1_WindowDecidesAward ==
    [][ (Len(reading_logs') = Len(reading_logs) + 1 /\ Last(reading_logs').vndb_id /= None)
        => LET e == Last(reading_logs')
               entry == GET_VN_TITLE(vn_titles, e.vndb_id)
               in_window ==
                   /\ entry /= None
                   /\ MonthNum(Val(entry).start_month) <= now
                   /\ now <= MonthNum(Val(entry).end_month)
               meta == Val(vndb_cache'[add_v_prefix(e.vndb_id)])
           IN  /\ MonthNum(e.reward_month) = now
               /\ IF in_window
                  THEN /\ e.points = Val(entry).is_monthly_points
                       /\ e.reward_reason = "As Monthly VN"
                  ELSE /\ e.points = get_points_not_monthly(meta).v
                       /\ e.reward_reason = "As Non-Monthly VN" ]_vars

\* C1 witness: the same catalogued title was recorded once inside its window, with
\* the monthly points, and once after the window's end, with the length-derived ones
C1_Witness ==
    \E i, j \in 1..Len(reading_logs) :
        /\ reading_logs[i].vndb_id = reading_logs[j].vndb_id
        /\ reading_logs[i].reward_reason = "As Monthly VN"
        /\ reading_logs[i].points = DEFAULT_MONTHLY_POINTS
        /\ reading_logs[j].reward_reason = "As Non-Monthly VN"
        /\ reading_logs[j].points = 2
        /\ GET_VN_TITLE(vn_titles, reading_logs[j].vndb_id) /= None
        /\ MonthNum(Val(GET_VN_TITLE(vn_titles, reading_logs[j].vndb_id)).end_month)
               < MonthNum(reading_logs[j].reward_month)

NoDuplicateCompletion ==
    \A i, j \in 1..Len(reading_logs) :
        ( /\ reading_logs[i].user_id = reading_logs[j].user_id
          /\ reading_logs[i].vndb_id /= None
          /\ reading_logs[i].vndb_id = reading_logs[j].vndb_id ) => i = j

\* C3: with commands running one at a time, a finish_vn by a user for a title the
\* ledger already holds an event of that user for is answered "already logged" and
\* leaves the ledger and the user's total as they were; so the ledger never holds
\* two events with the same user_id and the same non-null vndb_id.
C3_DuplicateRejected ==
    /\ []NoDuplicateCompletion
    /\ [][ reply'.op = "finish_vn" =>
           \A user \in Users, vndb_id \in RawIds :
             HasLog(reading_logs, user, vndb_id) =>
               \A in \in FinishInputs, guild \in GuildSet :
                 finish_vn(user, vndb_id, in[1], in[2], guild, in[3])
                 => /\ reading_logs' = reading_logs
                    /\ TotalOf(reading_logs', user) = TotalOf(reading_logs, user)
                    /\ (~comment_invalid(in[1]) /\ ~rating_invalid(in[2]))
                           => reply' = Answer("finish_vn", "already logged") ]_vars

\* C3 witness: a second finish_vn for a recorded (user, title) was just rejected,
\* in a ledger that also holds a manual grant
C3_Witness ==
    /\ reply = Answer("finish_vn", "already logged")
    /\ \E i, j \in 1..Len(reading_logs) :
        reading_logs[i].vndb_id /= None /\ reading_logs[j].vndb_id = None

\* C4: an authorized delete_log of a log_id that is in the ledger removes exactly
\* that row: the owner's total drops by the row's points and every other row stays.
C4_DeleteRemovesExactlyThatEvent ==
    [][ \A caller \in Users, guild \in GuildSet, log_id \in 1..MaxLog :
          ( /\ delete_log(caller, guild, log_id)
            /\ user_has_permission(caller, roles[guild][caller])
            /\ GET_LOG_BY_ID(reading_logs, log_id) /= None )
          => LET row == Val(GET_LOG_BY_ID(reading_logs, log_id))
             IN  /\ reading_logs' = DELETE_LOG_BY_ID(reading_logs, log_id)
                 /\ TotalOf(reading_logs', row.user_id)
                        = TotalOf(reading_logs, row.user_id) - row.points ]_vars

\* C2: whenever length_minutes is present, whatever integer >= 0 it is and whatever
\* the length rating, get_points_not_monthly returns max(1, length_minutes \div 600)
\* (1199 gives 1, 1200 gives 2, 7200 gives 12).
C2_FloorOfLengthWithMinimumOne ==
    (call.done /\ call.length_minutes /= None)
        => Val(call.result) = PyInt(Max(1, Val(call.length_minutes) \div 600))

\* the role of the greatest threshold that is <= total, None when there is none
GreatestReached(guild, total) ==
    LET items == {REWARD_STRUCTURE[guild][i] : i \in 1..Len(REWARD_STRUCTURE[guild])}
        reached == {it \in items : it[1] <= total}
    IN  IF reached = {} THEN None
        ELSE Some((CHOOSE it \in reached : \A o \in reached : o[1] <= it[1])[2])

\* C7: for each guild's threshold table and every integer total,
\* determine_correct_role returns the role of the greatest threshold <= total, and
\* no role exactly when the total is below every threshold.
C7_HighestReachedTier ==
    call.done
        => /\ Val(call.result) = GreatestReached(call.guild, call.total_points)
           /\ (Val(call.result) = None) <=>
                  \A i \in 1..Len(REWARD_STRUCTURE[call.guild]) :
                      call.total_points < REWARD_STRUCTURE[call.guild][i][1]

\* C7 witness: a total between two thresholds got the lower one's role
C7_Witness ==
    /\ call.done
    /\ call.total_points = 99
    /\ call.result = Some(Some("Jouzu"))

Shown == reply.op = "vn_leaderboard" /\ reply.status = "ok"

\* C5: whatever the ledger holds and whatever the month and server filters are,
\* the entries vn_leaderboard shows are in order of non-increasing total points.
C5_LeaderboardSortedDescending ==
    Shown => \A i, j \in 1..Len(reply.out[3]) :
                 i < j => reply.out[3][i][2] >= reply.out[3][j][2]

\* C5 witness: a leaderboard of two identities with different totals, the one that
\* was first seen in the scan having the smaller total
C5_Witness ==
    /\ Shown
    /\ Len(reply.out[3]) = 2
    /\ reply.out[3][1][2] > reply.out[3][2][2]
    /\ get_username_db(GET_LOGS(reading_logs, reply.out[1], reply.out[2])[1].user_id)
           = reply.out[3][2][1]

\* C6: the totals of all entries of a shown leaderboard add up to the points of all
\* rows of the ledger that match the month and server filters, negative points
\* and manual grants included, also when several user ids share a display identity.
C6_LeaderboardSumMatchesLedger ==
    Shown =>
        LET Matches(r) ==
                /\ reply.out[1] /= None => r.reward_month = Val(reply.out[1])
                /\ reply.out[2] /= None => r.logged_in_guild = Val(reply.out[2])
        IN  SumTotals(reply.out[3]) = SumPoints(SelectSeq(reading_logs, Matches))

\* C6 witness: two user ids with one display identity on a filtered leaderboard
\* that includes a negative manual grant
C6_Witness ==
    /\ Shown
    /\ reply.out[2] /= None
    /\ \E i, j \in 1..Len(reading_logs) :
        /\ reading_logs[i].user_id /= reading_logs[j].user_id
        /\ get_username_db(reading_logs[i].user_id) = get_username_db(reading_logs[j].user_id)
        /\ reading_logs[i].logged_in_guild = Val(reply.out[2])
        /\ reading_logs[j].logged_in_guild = Val(reply.out[2])
        /\ reading_logs[i].points < 0
        /\ reading_logs[i].vndb_id = None

---------------------------------------------------------------------------
(* Properties of the check_rewards task *)

\* the step is the body of the inner loop for CurUser in CurGuild
AtMember == tick.pc = "run" /\ tick.g <= Len(Guilds)
CurGuild == Guilds[tick.g]
CurUser == tick.data[tick.u][1]
MemberStep == AtMember /\ tick' /= tick /\ CurUser \in Members(CurGuild)

\* the tier the run selects for CurUser
Selected == determine_correct_role(CurGuild, tick.data[tick.u][2])

TierHeld(held, guild, member) == held[guild][member] \cap TierRoles(guild)

\* the lifetime total of a member within one community
CommunityTotal(logs, user, guild) ==
    LET Mine(r) == r.user_id = user /\ r.logged_in_guild = guild
    IN  SumPoints(SelectSeq(logs, Mine))

NoCalls == tick'.pc = "run" /\ tick'.calls = tick.calls /\ roles' = roles

\* the last row the run read is a completion of CurUser in CurGuild that took the
\* community total from the tier the member holds into another tier
Crossed ==
    /\ tick.ledger /= <<>>
    /\ LET r == Last(tick.ledger)
           new_total == CommunityTotal(tick.ledger, CurUser, CurGuild)
           old == determine_correct_role(CurGuild, new_total - r.points)
           new == determine_correct_role(CurGuild, new_total)
       IN  /\ r.user_id = CurUser
           /\ r.logged_in_guild = CurGuild
           /\ r.vndb_id /= None
           /\ r.points > 0
           /\ old /= None
           /\ new /= old
           /\ TierHeld(roles, CurGuild, CurUser) = {Val(old)}

\* C8: when a member holds the tier role of the old total and a completion has
\* taken the member's total in the community to or above the next threshold, the
\* run that reads this ledger and meets no exception revokes the old tier role
\* and grants the new one.
C8_CrossingSwapsTier ==
    [][(MemberStep /\ tick'.pc = "run" /\ Crossed) =>
          LET new == determine_correct_role(
                         CurGuild, CommunityTotal(tick.ledger, CurUser, CurGuild))
              old == TierHeld(roles, CurGuild, CurUser)
          IN  /\ TierHeld(roles', CurGuild, CurUser) = {Val(new)}
              /\ tick'.calls = tick.calls \o
                     << <<"remove_roles", CurGuild, CurUser, old>>,
                        <<"add_roles", CurGuild, CurUser, Val(new)>> >>]_vars

HoldsExactlySelected ==
    /\ Selected /= None
    /\ TierHeld(roles, CurGuild, CurUser) = {Val(Selected)}

C10_ExactlySelectedTier ==
    [][(MemberStep /\ tick'.pc = "run" /\ Selected /= None) =>
          TierHeld(roles', CurGuild, CurUser) = {Val(Selected)}]_vars

\* C11: the tier a run selects for a member of a guild is the tier of the sum of
\* the points of the member's rows logged in that guild; rows logged in other
\* guilds do not change it.
C11_TierFromCommunityTotal ==
    (AtMember /\ CurUser \in Members(CurGuild)) =>
        Selected = determine_correct_role(
                       CurGuild, CommunityTotal(tick.ledger, CurUser, CurGuild))

\* C12: a call that raises for one member is caught for that member only: the run
\* goes on with the next member, and with the next guild after the last member,
\* and ends only when both loops are through.
C12_FailureIsolatedPerMember ==
    [][(AtMember /\ tick' /= tick) =>
          /\ tick'.pc = "run"
          /\ <<tick'.g, tick'.u>> = IF tick.u < Len(tick.data) THEN <<tick.g, tick.u + 1>>
                                    ELSE <<tick.g + 1, 1>>]_vars

---------------------------------------------------------------------------
(* Properties of the title catalog *)

InWindow(row, clock) ==
    MonthNum(row.start_month) <= clock /\ clock <= MonthNum(row.end_month)

\* C13: what get_current_monthly shows for the month p is exactly the rows of the
\* catalog with start_month <= p <= end_month in the order of the calendar, each once.
C13_CurrentMonthlyIsTheWindow ==
    reply.op = "get_current_monthly" =>
        LET p == MonthNum(reply.out[1])
            shown == reply.out[2]
        IN  /\ {shown[i] : i \in 1..Len(shown)}
                   = {vn_titles[i] : i \in {j \in 1..Len(vn_titles) : InWindow(vn_titles[j], p)}}
            /\ \A i, j \in 1..Len(shown) : shown[i] = shown[j] => i = j

\* C13 witness: with a title of window 2025-01..2025-03 in the catalog, the query of
\* 2025-04 has just left it out, another title being shown
C13_Witness ==
    /\ reply.op = "get_current_monthly"
    /\ reply.out[1] = <<2, 0, 2, 5, -3, 0, 4>>
    /\ Len(reply.out[2]) = 1
    /\ \E i \in 1..Len(vn_titles) :
        /\ vn_titles[i].start_month = <<2, 0, 2, 5, -3, 0, 1>>
        /\ vn_titles[i].end_month = <<2, 0, 2, 5, -3, 0, 3>>
        /\ vn_titles[i] /= reply.out[2][1]

\* C15: every row of the catalog has start_month <= end_month.
C15_WindowsAreOrdered ==
    \A i \in 1..Len(vn_titles) :
        MonthNum(vn_titles[i].start_month) <= MonthNum(vn_titles[i].end_month)

UniqueIds ==
    \A i, j \in 1..Len(vn_titles) : vn_titles[i].vndb_id = vn_titles[j].vndb_id => i = j

\* C14: an add_vn for an id that is in the catalog, at its check or at its insert,
\* is answered with a failure and leaves the catalog as it was; and however the
\* steps of add_vn and remove_vn commands interleave, no two rows of the catalog
\* have the same vndb_id.
C14_DuplicateTitleRejected ==
    /\ []UniqueIds
    /\ [][ /\ \A i \in 1..Len(call), api_up \in BOOLEAN :
                ( /\ call[i].op = "add_vn"
                  /\ GET_VN_TITLE(vn_titles, call[i].vndb_id) /= None
                  /\ add_vn_insert(i, api_up) )
                => /\ vn_titles' = vn_titles
                   /\ reply'.op = "add_vn"
                   /\ reply'.status = "error"
           /\ \A caller \in ALLOWED_USER_IDS, title \in RawIds, start_arg \in RaceMonthArgs :
                ( /\ GET_VN_TITLE(vn_titles, add_v_prefix(title)) /= None
                  /\ add_vn_check(caller, "TMW", title, start_arg, None,
                                  DEFAULT_MONTHLY_POINTS) )
                => /\ vn_titles' = vn_titles
                   /\ call' = call
                   /\ reply' = Answer("add_vn", "already exists") ]_vars

\* C14 witness: of two add_vn commands that both passed the check for an id, the
\* second has just been refused by the key of the table; the row of the first,
\* with its own window, is the only row of the id
C14_Witness ==
    /\ reply = Answer("add_vn", "error")
    /\ call = <<>>
    /\ \E i \in 1..Len(vn_titles) :
        /\ vn_titles[i].vndb_id = <<"v", "1">>
        /\ vn_titles[i].start_month = get_current_month(StartClock + 1)

---------------------------------------------------------------------------
(* Properties of the metadata cache *)

\* C16: a valid finish_vn for a title without a cache row, while api.vndb.org does
\* not answer, is answered with the failure and records nothing, whether or not
\* the catalog has the title in its window: the ledger and the cache stay as they are.
C16_NoMetadataNoAward ==
    [][ reply'.op = "finish_vn" =>
          \A user \in Users, vndb_id \in RawIds :
             ( /\ vndb_cache[add_v_prefix(vndb_id)] = None
               /\ finish_vn(user, vndb_id, 5, 3, "TMW", FALSE) )
             => /\ reading_logs' = reading_logs
                /\ next_log_id' = next_log_id
                /\ vndb_cache' = vndb_cache
                /\ reply' = Answer("finish_vn", "vndb id not found") ]_vars

\* C16 witness: such a finish_vn has just failed, after a completion of another
\* title was recorded
C16_Witness ==
    /\ reply = Answer("finish_vn", "vndb id not found")
    /\ vndb_cache[<<"v", "2">>] = None
    /\ Len(reading_logs) = 1
    /\ vn_titles /= <<>>

\* what from_vndb_id does with the cache as it is
CacheHitsAreStored ==
    \A raw_id \in RawIds, api_up \in BOOLEAN :
        LET vid == add_v_prefix(raw_id)
            got == from_vndb_id(vndb_cache, raw_id, api_up)
        IN  /\ got.fetch_called <=> vndb_cache[vid] = None
            /\ vndb_cache[vid] /= None => (got.entry = vndb_cache[vid] /\ got.cache = vndb_cache)
            /\ (vndb_cache[vid] = None /\ api_up) =>
                   /\ got.entry = Some(VNDB(vid))
                   /\ got.cache[vid] = Some(cache_row(VNDB(vid)))
                   /\ \A other \in Ids \ {vid} : got.cache[other] = vndb_cache[other]

\* C17: from_vndb_id calls the fetch exactly when the cache has no row for the id;
\* a fetched entry is stored; a later call returns the stored row without a fetch;
\* and no command changes or removes a row of the cache.
C17_CacheOnceForever ==
    /\ []CacheHitsAreStored
    /\ [][\A vid \in Ids : vndb_cache[vid] /= None => vndb_cache'[vid] = vndb_cache[vid]]_vars

\* C17 witness: two completions of one title, submitted as "v1" and as "1", are in
\* the ledger, the second of which found the row the first had stored
C17_Witness ==
    /\ Len(reading_logs) = 2
    /\ add_v_prefix(reading_logs[1].vndb_id) = add_v_prefix(reading_logs[2].vndb_id)
    /\ reading_logs[1].vndb_id /= reading_logs[2].vndb_id
    /\ vndb_cache[add_v_prefix(reading_logs[1].vndb_id)] /= None

\* C19: for an entry without length_minutes, get_points_not_monthly returns the
\* length rating when there is one and 1 when there is none, an integer >= 1.
C19_FallbackIsIntegerAtLeastOne ==
    (call.done /\ call.length_minutes = None) =>
        /\ Val(call.result).t = "int"
        /\ Val(call.result).v >= 1
        /\ Val(call.result).v = IF call.length_rating = None THEN 1
                                ELSE Val(call.length_rating).v

---------------------------------------------------------------------------
(* Properties of /delete_log and /reward_points *)

\* C18: an authorized delete_log of a log_id that no row of the ledger has is
\* answered "Log not found." and leaves every row, and so every total, as it was.
C18_DeleteAbsentChangesNothing ==
    [][ reply'.op = "delete_log" =>
          \A caller \in Users, guild \in GuildSet, log_id \in 1..MaxLog :
             ( /\ user_has_permission(caller, roles[guild][caller])
               /\ \A i \in 1..Len(reading_logs) : reading_logs[i].log_id /= log_id
               /\ delete_log(caller, guild, log_id) )
             => /\ reply' = Answer("delete_log", "log not found")
                /\ reading_logs' = reading_logs
                /\ \A user \in Users : TotalOf(reading_logs', user) = TotalOf(reading_logs, user) ]_vars

\* C18 witness: "Log not found." was answered while the ledger has a row
C18_Witness ==
    /\ reply = Answer("delete_log", "log not found")
    /\ reading_logs /= <<>>

\* C20: an authorized reward_points appends exactly one row, with no title, the
\* points given (negative ones too) and the reason given, whatever rows the member
\* already has, and the member's total changes by exactly those points.
C20_ManualGrantAlwaysAppends ==
    [][ reply'.op = "reward_points" =>
          \A caller \in Users, member \in Users, points \in RewardAmounts, guild \in GuildSet :
             ( /\ user_has_permission(caller, roles[guild][caller])
               /\ reward_points(caller, member, points, "bonus", guild) )
             => /\ reply' = Answer("reward_points", "ok")
                /\ Len(reading_logs') = Len(reading_logs) + 1
                /\ SubSeq(reading_logs', 1, Len(reading_logs)) = reading_logs
                /\ Last(reading_logs').user_id = member
                /\ Last(reading_logs').vndb_id = None
                /\ Last(reading_logs').points = points
                /\ Last(reading_logs').reward_reason = "bonus"
                /\ TotalOf(reading_logs', member) = TotalOf(reading_logs, member) + points
                /\ \A other \in Users \ {member} :
                       TotalOf(reading_logs', other) = TotalOf(reading_logs, other) ]_vars

\* C20 witness: a member has two grants for the same reason, the second negative
C20_Witness ==
    /\ reply = Answer("reward_points", "ok")
    /\ Len(reading_logs) = 2
    /\ reading_logs[1].user_id = reading_logs[2].user_id
    /\ reading_logs[1].vndb_id = None /\ reading_logs[2].vndb_id = None
    /\ reading_logs[1].reward_reason = reading_logs[2].reward_reason
    /\ reading_logs[2].points < 0

---------------------------------------------------------------------------
(* Properties of /finish_vn's validation *)

\* every row finish_vn wrote (the rows with a title) has a rating in 1..5
RatingsInRange ==
    \A i \in 1..Len(reading_logs) :
        reading_logs[i].vndb_id /= None =>
            /\ reading_logs[i].user_rating /= None
            /\ Val(reading_logs[i].user_rating) \in 1..5

\* C21: a finish_vn whose rating is outside 1..5 is answered with a validation
\* failure and touches neither the ledger nor the metadata cache, so every row
\* finish_vn wrote carries a rating in 1..5.
C21_RatingValidatedFirst ==
    /\ []RatingsInRange
    /\ [][ reply'.op = "finish_vn" =>
             \A in \in FinishInputs :
                in[2] \notin 1..5 =>
                  \A user \in Users, vndb_id \in RawIds, guild \in GuildSet :
                     finish_vn(user, vndb_id, in[1], in[2], guild, in[3])
                     => /\ reply'.status \in {"invalid rating", "invalid comment"}
                        /\ reading_logs' = reading_logs
                        /\ next_log_id' = next_log_id
                        /\ vndb_cache' = vndb_cache ]_vars

\* C21 witness: a rating outside 1..5 has just been refused while the ledger holds
\* a completion
C21_Witness ==
    /\ reply = Answer("finish_vn", "invalid rating")
    /\ \E i \in 1..Len(reading_logs) : reading_logs[i].vndb_id /= None

---------------------------------------------------------------------------
(* Properties of /vn_server_leaderboard *)

ServersShown == reply.op = "vn_server_leaderboard" /\ reply.status = "ok"

GuildRows(guild) ==
    LET Here(r) == r.logged_in_guild = guild
    IN  SelectSeq(reading_logs, Here)

\* C22: the servers vn_server_leaderboard lists are in order of non-increasing
\* grand total; each server with rows in the ledger is listed once, with the sum
\* of the points of all its rows, and no other server is listed.
C22_ServersRankedByGrandTotal ==
    ServersShown =>
        /\ \A i, j \in 1..Len(reply.out) : i < j => reply.out[i][2] >= reply.out[j][2]
        /\ \A i, j \in 1..Len(reply.out) : i /= j => reply.out[i][1] /= reply.out[j][1]
        /\ \A i \in 1..Len(reply.out) :
               /\ GuildRows(reply.out[i][1]) /= <<>>
               /\ reply.out[i][2] = SumPoints(GuildRows(reply.out[i][1]))
        /\ \A guild \in GuildSet :
               GuildRows(guild) /= <<>> => \E i \in 1..Len(reply.out) : reply.out[i][1] = guild

\* C22 witness: two servers are listed, the one whose row the scan met first having
\* the smaller grand total
C22_Witness ==
    /\ ServersShown
    /\ Len(reply.out) = 2
    /\ reply.out[1][2] > reply.out[2][2]
    /\ GET_LOGS(reading_logs, None, None)[1].logged_in_guild = reply.out[2][1]

---------------------------------------------------------------------------
(* Properties of /user_logs *)

\* C23: for a user with at least one row in the ledger, user_logs completes and
\* shows all rows of that user, a row of a later month before a row of an earlier one.
C23_UserLogsMostRecentFirst ==
    [][ reply'.op = "user_logs" =>
          \A member \in BoardUsers :
             ( /\ \E i \in 1..Len(reading_logs) : reading_logs[i].user_id = member
               /\ user_logs(member) )
             => /\ reply'.status = "ok"
                /\ \A i \in 1..Len(reading_logs) :
                       reading_logs[i].user_id = member =>
                           \E k \in 1..Len(reply'.out) : reply'.out[k] = reading_logs[i]
                /\ \A k \in 1..Len(reply'.out) : reply'.out[k].user_id = member
                /\ \A k, l \in 1..Len(reply'.out) :
                       k < l => MonthNum(reply'.out[k].reward_month)
                                    >= MonthNum(reply'.out[l].reward_month) ]_vars

---------------------------------------------------------------------------
(* Properties of interleaved /finish_vn commands *)

InFlight(i, pc) == call[i].op = "finish_vn" /\ call[i].pc = pc

\* C24: of two finish_vn commands of one user for one title that are both between
\* the duplicate check and the insert, each has passed the check, and each insert
\* appends its row: the ledger then has two rows for the pair and the user's total
\* has the points of both.
C24_InterleavedDuplicate ==
    [][ /\ \A i \in 1..Len(call) :
             ( /\ InFlight(i, "check")
               /\ ~HasLog(reading_logs, call[i].user, call[i].vndb_id)
               /\ finish_vn_check(i) )
             => call' = [call EXCEPT ![i].pc = "insert"]
        /\ \A i \in 1..Len(call) :
             ( /\ InFlight(i, "insert")
               /\ finish_vn_insert(i) )
             => LET row == Last(reading_logs')
                IN  /\ Len(reading_logs') = Len(reading_logs) + 1
                    /\ SubSeq(reading_logs', 1, Len(reading_logs)) = reading_logs
                    /\ row.user_id = call[i].user /\ row.vndb_id = call[i].vndb_id
                    /\ TotalOf(reading_logs', call[i].user)
                           = TotalOf(reading_logs, call[i].user) + row.points ]_vars

\* C24 witness: both commands have inserted: two rows of one user for one title,
\* the total being the points twice
C24_Witness ==
    /\ call = <<>>
    /\ Len(reading_logs) = 2
    /\ reading_logs[1].user_id = reading_logs[2].user_id
    /\ reading_logs[1].vndb_id = reading_logs[2].vndb_id
    /\ reading_logs[1].vndb_id /= None
    /\ TotalOf(reading_logs, reading_logs[1].user_id) = 2 * reading_logs[1].points

\* C30: a from_vndb_id that missed the cache and whose fetch is answered returns
\* the fetched entry, also when another call stored the id in between, and the
\* cache then holds the row of that id.
C30_ConcurrentMissesBothReturn ==
    [][ \A i \in 1..Len(call) :
          ( /\ InFlight(i, "fetch")
            /\ finish_vn_fetch(i, TRUE) )
          => /\ Len(call') = Len(call)
             /\ call'[i].pc = "check"
             /\ call'[i].vn_info = Some(VNDB(add_v_prefix(call[i].vndb_id)))
             /\ vndb_cache'[add_v_prefix(call[i].vndb_id)] /= None ]_vars

---------------------------------------------------------------------------
(* Properties of the reconciliation loop *)

LiveTasks == {i \in 1..Len(call.loops) : call.loops[i].pc /= "done"}
InBody == {i \in 1..Len(call.loops) : call.loops[i].pc = "body"}

\* C25: at most one run of check_rewards is in progress at any time: on_ready never
\* makes a second live task, and an iteration begins only when no run is in
\* progress, also when the interval ended during the run before it.
C25_AtMostOneTick ==
    /\ [](Cardinality(LiveTasks) <= 1 /\ Cardinality(InBody) <= 1)
    /\ [][ \A i \in 1..Len(call.loops) : iteration_begin(i) => InBody = {} ]_vars

\* C25 witness: on_ready has come three times, the one live task is in its second
\* run or a later one, and the interval has ended during that run
C25_Witness ==
    /\ call.readies >= 3
    /\ \E i \in InBody : call.loops[i].due /\ call.loops[i].iterations >= 2

---------------------------------------------------------------------------
(* What a run of check_rewards leaves alone *)

\* the total of the data dict is below every threshold of the guild
BelowEveryThreshold(guild, total) == GreatestReached(guild, total) = None

\* C26: the run makes no call for a member whose total (the one the run computed)
\* is below every threshold of the guild, so the tier roles the member holds stay;
\* with an empty ledger the run ends at once without a call; and a step of the run
\* that takes a role from a member has selected a tier role for that member.
C26_NoRevokeWithoutSelection ==
    [][ /\ (MemberStep /\ BelowEveryThreshold(CurGuild, tick.data[tick.u][2])) => NoCalls
        /\ (check_rewards_start /\ reading_logs = <<>>)
               => (tick'.pc = "idle" /\ tick'.calls = <<>> /\ roles' = roles)
        /\ (AtMember /\ \E g \in GuildSet, m \in Users : ~(roles[g][m] \subseteq roles'[g][m]))
               => ~BelowEveryThreshold(CurGuild, tick.data[tick.u][2]) ]_vars

\* C26 witness: the run has dealt with member 2, whose total is below 1, in TMW and
\* made no call; the member holds a tier role
C26_Witness ==
    /\ tick.pc = "run"
    /\ tick.g = 2 /\ tick.u = 1
    /\ tick.calls = <<>>
    /\ tick.data = << <<2, -2>> >>
    /\ TierHeld(roles, "TMW", 2) /= {}

\* the roles the calls of a run name
CallRoles(c) == IF c[1] = "add_roles" THEN {c[4]} ELSE c[4]

---------------------------------------------------------------------------
(* Properties of the management commands *)

\* the caller is none of the allowed users and holds none of the allowed roles
Outsider(caller, guild) ==
    /\ caller \notin ALLOWED_USER_IDS
    /\ roles[guild][caller] \cap ALLOWED_ROLE_IDS = {}

\* the step is a management command of this caller, with the arguments NextReward
\* gives the commands of a caller who may not manage
ManagementCommand(caller, guild) ==
    \/ /\ reply'.op = "add_vn"
       /\ add_vn(caller, guild, <<"v", "1">>, None, None, DEFAULT_MONTHLY_POINTS, TRUE)
    \/ /\ reply'.op = "remove_vn"
       /\ \E title \in CatalogIds : remove_vn(caller, guild, title)
    \/ /\ reply'.op = "reward_points"
       /\ reward_points(caller, 1, 49, "bonus", guild)
    \/ /\ reply'.op = "delete_log"
       /\ delete_log(caller, guild, 1)

\* C28: add_vn, remove_vn, reward_points and delete_log of a caller who is none of
\* the allowed users and holds none of the allowed roles are refused: the catalog,
\* the ledger and the metadata cache are the same before and after.
C28_OutsiderChangesNothing ==
    [][ \A caller \in Users :
          (Outsider(caller, "TMW") /\ ManagementCommand(caller, "TMW"))
          => /\ reply'.status = "not authorized"
             /\ vn_titles' = vn_titles
             /\ reading_logs' = reading_logs
             /\ next_log_id' = next_log_id
             /\ vndb_cache' = vndb_cache ]_vars

\* C28 witness: delete_log of log 1 has just been refused while the ledger has
\* that row and the catalog has a title
C28_Witness ==
    /\ reply = Answer("delete_log", "not authorized")
    /\ \E i \in 1..Len(reading_logs) : reading_logs[i].log_id = 1
    /\ vn_titles /= <<>>

---------------------------------------------------------------------------
(* The spelling of a title's id in /finish_vn *)

\* no user has two completions of one title, however the id was spelled
OneCompletionPerTitle ==
    \A i, j \in 1..Len(reading_logs) :
        ( /\ i /= j
          /\ reading_logs[i].user_id = reading_logs[j].user_id
          /\ reading_logs[i].vndb_id /= None
          /\ reading_logs[j].vndb_id /= None )
        => add_v_prefix(reading_logs[i].vndb_id) /= add_v_prefix(reading_logs[j].vndb_id)

\* C29: finish_vn treats "1" and "v1" as one title: no user has two completions of
\* one title under the two spellings, the title_id stored is the one the metadata
\* cache uses, and a completion of a title that the catalog has in its window gets
\* the monthly points under either spelling.
C29_SpellingIndependent ==
    /\ []OneCompletionPerTitle
    /\ [](\A i \in 1..Len(reading_logs) :
             reading_logs[i].vndb_id /= None
                 => reading_logs[i].vndb_id = add_v_prefix(reading_logs[i].vndb_id))
    /\ [][ (reply'.op = "finish_vn" /\ Len(reading_logs') = Len(reading_logs) + 1) =>
             LET e == Last(reading_logs')
                 t == GET_VN_TITLE(vn_titles, add_v_prefix(e.vndb_id))
             IN  (t /= None /\ InWindow(Val(t), now))
                     => e.reward_reason = "As Monthly VN" ]_vars

====
